---------------------------- MODULE Spec2Model ----------------------------
(***************************************************************************)
(* SoundCloud Terminal Player (src/sctp.py): the Catalog Client            *)
(* (SoundCloudScraper), the Playback Controller (AudioPlayer) and the      *)
(* Session Controller (SCTP), as a state machine.                          *)
(*                                                                         *)
(* Conventions                                                             *)
(*  - Text that the code parses (a duration, a link) is a sequence of      *)
(*    one-character strings, so that split() and int() are computed.       *)
(*    Text the code only copies (title, artist, image source) is an        *)
(*    opaque string.                                                       *)
(*  - search_tracks is a Textual worker over a plain (non-async) function: *)
(*    it runs in a thread of its own, and cancelling it only sets the      *)
(*    worker's cancelled flag, which the function reads at line 211.       *)
(*    Every statement of the thread is one step that interleaves with the  *)
(*    message handlers of the UI loop and with the other worker threads.   *)
(*    (Textual releases that want thread=True for such a function reject   *)
(*    the decorator when the class is defined; the releases that accept it *)
(*    run the function in a thread.)                                       *)
(*  - The initial state is the session with its widgets composed and       *)
(*    mounted and nothing searched or played yet; start-up itself is not   *)
(*    modelled.                                                            *)
(*  - The audio engine (libvlc) is outside the repository; a media player  *)
(*    handle is modelled by the documented effect of the calls the code    *)
(*    makes on it (set_media, play, pause, stop).                          *)
(***************************************************************************)
EXTENDS Integers, Sequences, FiniteSets, TLC

\* None, for a text the code only copies
None == "None"

\* None, for a text the code parses: no sequence of characters
Absent == <<None>>

\* None, for an Optional[Track]
NoTrack == [none |-> TRUE]

\* a media player handle without media
NoMedia == <<>>

(***************************************************************************)
(* Bounds of the model.                                                    *)
(***************************************************************************)
\* searches started in one behaviour (workers created by search_tracks)
MaxSearches == 2
\* messages of the user (Submitted, Selected) waiting in the message queue
MaxPending == 1
\* result nodes of a response document drawn for the Catalog Client
MaxNodes == 2
\* calls of search made by the single caller of the Catalog Client
MaxCalls == 2

\* lru_cache(maxsize=100)
CacheMaxSize == 100

(***************************************************************************)
(* Text: split() and int().                                                *)
(***************************************************************************)
Digits == <<"0", "1", "2", "3", "4", "5", "6", "7", "8", "9">>

IsDigit(c) == \E i \in 1..Len(Digits) : Digits[i] = c

DigitVal(c) == (CHOOSE i \in 1..Len(Digits) : Digits[i] = c) - 1

\* str.split(sep): the pieces of s between the separators; never empty.
RECURSIVE Split(_, _)
Split(s, sep) ==
    IF \A i \in 1..Len(s) : s[i] # sep
    THEN <<s>>
    ELSE LET k == CHOOSE i \in 1..Len(s) :
                      /\ s[i] = sep
                      /\ \A j \in 1..(i - 1) : s[j] # sep
         IN <<SubSeq(s, 1, k - 1)>> \o Split(SubSeq(s, k + 1, Len(s)), sep)

RECURSIVE DecimalValue(_)
DecimalValue(s) ==
    IF s = <<>> THEN 0
    ELSE 10 * DecimalValue(SubSeq(s, 1, Len(s) - 1)) + DigitVal(s[Len(s)])

\* int(text) over the alphabet of digits, letters and ":": the value of a
\* non-empty digit string, ValueError otherwise.
ToInt(s) ==
    IF s # <<>> /\ \A i \in 1..Len(s) : IsDigit(s[i])
    THEN [ok |-> TRUE, val |-> DecimalValue(s)]
    ELSE [ok |-> FALSE, exc |-> "ValueError"]

\* SoundCloudScraper.parse_duration: every part is converted (list(map(int,
\* ...))), then parts[0] * 60 + parts[1].
parse_duration(duration_str) ==
    LET parts == [i \in 1..Len(Split(duration_str, ":")) |->
                      ToInt(Split(duration_str, ":")[i])]
    IN IF \E i \in 1..Len(parts) : ~parts[i].ok
       THEN [ok |-> FALSE, exc |-> "ValueError"]
       ELSE IF Len(parts) < 2
            THEN [ok |-> FALSE, exc |-> "IndexError"]
            ELSE [ok |-> TRUE, val |-> parts[1].val * 60 + parts[2].val]

(***************************************************************************)
(* Response documents.  A result node (li.searchList__item) is the record  *)
(* of what the five selectors of the loop find in it; None is a selector   *)
(* that finds nothing (select_one returns None, or the attribute is not    *)
(* there): None for the title, the artist and the image source, Absent for *)
(* the duration text and the link.                                         *)
(***************************************************************************)
Node(title, artist, duration, href, img) ==
    [title |-> title, artist |-> artist, duration |-> duration,
     href |-> href, img |-> img]

\* the last piece of the link: item.select_one("a")["href"].split("/")[-1]
TrackIdOf(href) == Split(href, "/")[Len(Split(href, "/"))]

\* Whether the body of the loop raises on this node (lines 67-79).
NodeRaises(n) ==
    \/ n.title = None
    \/ n.artist = None
    \/ n.duration = Absent
    \/ ~parse_duration(n.duration).ok
    \/ n.href = Absent
    \/ n.img = None

\* Track(...) of lines 72-79.
MakeTrack(n) ==
    [title |-> n.title,
     artist |-> n.artist,
     duration |-> parse_duration(n.duration).val,
     stream_url |-> <<"https://api.soundcloud.com/tracks/">> \o TrackIdOf(n.href)
                        \o <<"/stream">>,
     artwork_url |-> n.img,
     id |-> TrackIdOf(n.href)]

\* A response of requests.get: a connection failure or timeout (the call
\* raises), or a status code with a parsed body (the sequence of the
\* document's result nodes).
NetFail == [kind |-> "raise", status |-> 0, body |-> <<>>]

HttpResponse(status, body) == [kind |-> "http", status |-> status, body |-> body]

\* response.raise_for_status(): HTTPError for 400 <= status < 600.
RaisesForStatus(r) == r.status >= 400 /\ r.status < 600

\* The try block of SoundCloudScraper.search, lines 58-81, on a response:
\* it raises (the request, the status, or a node of the loop), or it returns
\* the tracks of all the nodes.
TryBlock(r) ==
    IF r.kind = "raise" \/ RaisesForStatus(r)
    THEN [raised |-> TRUE, tracks |-> <<>>]
    ELSE IF \E i \in 1..Len(r.body) : NodeRaises(r.body[i])
         THEN [raised |-> TRUE, tracks |-> <<>>]
         ELSE [raised |-> FALSE,
               tracks |-> [i \in 1..Len(r.body) |-> MakeTrack(r.body[i])]]

\* search without its try/except: what the try block raises reaches the caller
SearchBody_NoCatch(r) == TryBlock(r)

\* The body of SoundCloudScraper.search, lines 57-84: an exception of the
\* try block is caught and [] is returned.
SearchBody(r) ==
    IF TryBlock(r).raised
    THEN [raised |-> FALSE, tracks |-> <<>>]
    ELSE TryBlock(r)


(***************************************************************************)
(* The query cache: functools.lru_cache(maxsize=100) around search.  A     *)
(* sequence of entries, least recently used first.                         *)
(***************************************************************************)
CacheKeys(c) == {c[i].key : i \in 1..Len(c)}

CacheHas(c, q) == q \in CacheKeys(c)

CacheGet(c, q) == c[CHOOSE i \in 1..Len(c) : c[i].key = q].value

\* a hit that leaves the order of the entries as it is (first in, first out)
CacheTouch_NoRefresh(c, q) == c

\* a hit moves the entry to the most recently used end
CacheTouch(c, q) ==
    LET k == CHOOSE i \in 1..Len(c) : c[i].key = q
    IN SubSeq(c, 1, k - 1) \o SubSeq(c, k + 1, Len(c)) \o <<c[k]>>

\* after the wrapped function has returned on a miss: an entry that some
\* other call added meanwhile is left as it is; a full cache drops its least
\* recently used entry.
CacheStore(c, q, v) ==
    IF CacheHas(c, q) THEN c
    ELSE IF Len(c) >= CacheMaxSize
         THEN Tail(c) \o <<[key |-> q, value |-> v]>>
         ELSE c \o <<[key |-> q, value |-> v]>>

(***************************************************************************)
(* The audio engine: a libvlc media player handle is [media, state].       *)
(***************************************************************************)
\* instance.media_player_new()
NewMediaPlayer == [media |-> NoMedia, state |-> "Idle"]

\* player.set_media(media): the handle lets go of what it was playing
vlc_set_media(h, media) == [media |-> media, state |-> "Idle"]

\* player.play(): the stream opens and plays, or the handle ends in error
vlc_play(h, opens) ==
    IF h.media = NoMedia THEN h
    ELSE [h EXCEPT !.state = IF opens THEN "Playing" ELSE "Error"]

\* player.pause(): toggles between playing and paused; no effect otherwise
vlc_pause(h) ==
    IF h.state = "Playing" THEN [h EXCEPT !.state = "Paused"]
    ELSE IF h.state = "Paused" THEN [h EXCEPT !.state = "Playing"]
    ELSE h

\* player.stop()
vlc_stop(h) == [h EXCEPT !.state = "Stopped"]

(***************************************************************************)
(* Inputs.                                                                 *)
(***************************************************************************)
Queries == {"a", "b"}

NodeA == Node("Song A", "Artist A", <<"3", ":", "4", "5">>,
              <<"/", "x", "/", "a">>, "a.jpg")

NodeB == Node("Song B", "Artist B", <<"1", ":", "0", "2", ":", "0", "3">>,
              <<"/", "y", "/", "b">>, "b.jpg")

NodeC == Node("Song C", "Artist C", <<"0", ":", "5", "9">>,
              <<"/", "y", "/", "c">>, "c.jpg")

\* another link that ends in the same piece as NodeA's
NodeA2 == Node("Song A (live)", "Artist Z", <<"1", "0", ":", "0", "0">>,
               <<"/", "z", "/", "a">>, "z.jpg")

NodeBadDuration == Node("Song D", "Artist D", <<"a", "b", "c">>,
                        <<"/", "x", "/", "d">>, "d.jpg")

NodeShortDuration == Node("Song E", "Artist E", <<"4", "5">>,
                          <<"/", "x", "/", "e">>, "e.jpg")

NodeNoTitle == Node(None, "Artist F", <<"2", ":", "0", "0">>,
                    <<"/", "x", "/", "f">>, "f.jpg")

NodeNoImage == Node("Song G", "Artist G", <<"2", ":", "3", "0">>,
                    <<"/", "x", "/", "g">>, None)

NodeNoArtist == Node("Song H", None, <<"2", ":", "1", "5">>,
                     <<"/", "x", "/", "h">>, "h.jpg")

NodeNoLink == Node("Song I", "Artist I", <<"2", ":", "4", "5">>, Absent, "i.jpg")

NodePool == {NodeA, NodeB, NodeA2, NodeBadDuration, NodeShortDuration,
             NodeNoTitle, NodeNoArtist, NodeNoLink, NodeNoImage}

RECURSIVE SeqsUpTo(_, _)
SeqsUpTo(S, n) ==
    IF n = 0 THEN {<<>>}
    ELSE LET shorter == SeqsUpTo(S, n - 1)
         IN shorter \cup {Append(d, x) : d \in shorter, x \in S}

Documents == SeqsUpTo(NodePool, MaxNodes)

\* what the remote service may answer in the Catalog Client's specification
Responses ==
    {NetFail}
    \cup {HttpResponse(200, d) : d \in Documents}
    \cup {HttpResponse(s, d) : s \in {404, 503}, d \in {<<>>, <<NodeA>>}}

\* what the remote service serves in the session's specification
Catalog == [q \in Queries |->
               IF q = "a" THEN HttpResponse(200, <<NodeA, NodeB>>)
               ELSE HttpResponse(200, <<NodeC>>)]

TracksOf(r) == SearchBody(r).tracks

TrackA == MakeTrack(NodeA)
TrackB == MakeTrack(NodeB)
TrackC == MakeTrack(NodeC)

\* what one request for q may come back with: the service's page, a
\* connection failure or timeout, an error status, a page without results
Outcomes(srv, q) ==
    {srv[q], NetFail, HttpResponse(503, srv[q].body), HttpResponse(200, <<>>)}

(***************************************************************************)
(* State.                                                                  *)
(***************************************************************************)
VARIABLES
    remote,          \* what the remote service serves for each query
    cache,           \* the lru_cache of SoundCloudScraper.search
    requests,        \* requests.get calls made so far, per query
    workers,         \* the search_tracks workers, in the order they were started
    current_tracks,  \* SCTP.current_tracks
    list_view,       \* the tracks of the TrackWidgets in #track-list, in order
    selected_track,  \* SCTP.selected_track
    artwork,         \* the #artwork widget: its url and the image it shows
    player,          \* SCTP.player, the AudioPlayer
    notifications,   \* what self.notify has shown
    messages,        \* the messages of the user posted and not yet handled
    running,         \* the app is running (no exception has ended it)
    call             \* the last call of search made by a single caller

vars == <<remote, cache, requests, workers, current_tracks, list_view,
          selected_track, artwork, player, notifications, messages, running,
          call>>

NoCall == [n |-> 0, query |-> "", hit |-> FALSE, response |-> NetFail,
           raised |-> FALSE, result |-> <<>>, uses |-> <<>>]

\* SCTP.__init__, AudioPlayer.__init__, compose
InitSession ==
    /\ cache = <<>>
    /\ requests = [q \in Queries |-> 0]
    /\ workers = <<>>
    /\ current_tracks = <<>>
    /\ list_view = <<>>
    /\ selected_track = NoTrack
    /\ artwork = [url |-> "", image |-> None]
    /\ player = [instance |-> <<NewMediaPlayer>>, player |-> 1,
                 current_track |-> NoTrack]
    /\ notifications = {}
    /\ messages = <<>>
    /\ running = TRUE
    /\ call = NoCall

Init ==
    /\ remote = Catalog
    /\ InitSession

(***************************************************************************)
(* AudioPlayer.                                                            *)
(***************************************************************************)
\* the playback status: the state of the engine handle self.player
Status(p) == p.instance[p.player].state

\* play on a media player made for the track, the one before left as it is
AudioPlayer_play_NewPlayer(self, track, opens) ==
    [instance |-> Append(self.instance,
                         vlc_play(vlc_set_media(NewMediaPlayer, track.stream_url),
                                  opens)),
     player |-> Len(self.instance) + 1,
     current_track |-> track]

\* play that starts the track and forgets to record it as the current one
AudioPlayer_play_NoCurrent(self, track, opens) ==
    [self EXCEPT
        !.instance[self.player] = vlc_play(vlc_set_media(@, track.stream_url), opens)]

\* AudioPlayer.play, lines 102-107
AudioPlayer_play(self, track, opens) ==
    [self EXCEPT
        !.instance[self.player] = vlc_play(vlc_set_media(@, track.stream_url), opens),
        !.current_track = track]

\* toggle_pause that resumes with play() whenever the engine is not playing
AudioPlayer_toggle_pause_Resume(self) ==
    [self EXCEPT !.instance[self.player] =
        IF @.state = "Playing" THEN vlc_pause(@) ELSE vlc_play(@, TRUE)]

\* toggle_pause that can only pause (set_pause(1)): a paused engine stays
\* paused
AudioPlayer_toggle_pause_OnlyPause(self) ==
    [self EXCEPT !.instance[self.player] =
        IF @.state = "Playing" THEN vlc_pause(@) ELSE @]

\* AudioPlayer.toggle_pause, lines 109-111
AudioPlayer_toggle_pause(self) ==
    [self EXCEPT !.instance[self.player] = vlc_pause(@)]

\* AudioPlayer.stop, lines 113-115
AudioPlayer_stop(self) ==
    [self EXCEPT !.instance[self.player] = vlc_stop(@)]

(***************************************************************************)
(* SCTP: the message handlers of the UI loop.                              *)
(***************************************************************************)
\* Worker.cancel() on every worker of the group that has not finished
CancelGroup(ws) ==
    [w \in 1..Len(ws) |->
        IF ws[w].pc = "done" THEN ws[w] ELSE [ws[w] EXCEPT !.cancelled = TRUE]]

NewWorker(query) ==
    [query |-> query, pc |-> "notify", cancelled |-> FALSE, tracks |-> <<>>,
     i |-> 0]

\* the call of search_tracks, a @work(exclusive=True) method: the workers
\* still running are cancelled and a new one is started
StartSearch(ws, query) == Append(CancelGroup(ws), NewWorker(query))

\* the user presses Enter in #search-input, or the search button, with the
\* text query in the input: Input.Submitted (Button.Pressed) is posted
PendingSearches(ms) ==
    Cardinality({k \in 1..Len(ms) : ms[k].kind = "Submitted" /\ ms[k].value # ""})

UserSubmit(query) ==
    /\ running
    /\ Len(messages) < MaxPending
    /\ query # "" => Len(workers) + PendingSearches(messages) < MaxSearches
    /\ messages' = Append(messages, [kind |-> "Submitted", value |-> query])
    /\ UNCHANGED <<remote, cache, requests, workers, current_tracks, list_view,
                   selected_track, artwork, player, notifications, running, call>>

\* handle_search without the test of line 187: the empty text is searched
\* like any other
HandleSearch_NoGuard ==
    /\ running
    /\ messages # <<>>
    /\ Head(messages).kind = "Submitted"
    /\ messages' = Tail(messages)
    /\ workers' = StartSearch(workers, Head(messages).value)
    /\ UNCHANGED <<remote, cache, requests, current_tracks, list_view,
                   selected_track, artwork, player, notifications, running, call>>

\* handle_search, lines 182-188, on the oldest pending message, with the
\* text of #search-input
HandleSearch ==
    /\ running
    /\ messages # <<>>
    /\ Head(messages).kind = "Submitted"
    /\ messages' = Tail(messages)
    /\ IF Head(messages).value # ""
       THEN workers' = StartSearch(workers, Head(messages).value)
       ELSE workers' = workers
    /\ UNCHANGED <<remote, cache, requests, current_tracks, list_view,
                   selected_track, artwork, player, notifications, running, call>>

\* the user selects the i-th item of the list: ListView posts Selected with
\* that item
UserSelect(i) ==
    /\ running
    /\ Len(messages) < MaxPending
    /\ i \in 1..Len(list_view)
    /\ messages' = Append(messages, [kind |-> "TrackWidget", track |-> list_view[i]])
    /\ UNCHANGED <<remote, cache, requests, workers, current_tracks, list_view,
                   selected_track, artwork, player, notifications, running, call>>

\* a Selected message whose item is a ListItem that is no TrackWidget
UserSelectOther ==
    /\ running
    /\ Len(messages) < MaxPending
    /\ messages' = Append(messages, [kind |-> "ListItem", track |-> NoTrack])
    /\ UNCHANGED <<remote, cache, requests, workers, current_tracks, list_view,
                   selected_track, artwork, player, notifications, running, call>>

\* Artwork.display_image, lines 141-149: nothing outside kitty ("skipped");
\* inside kitty the icat kitten is run ("shown"), and subprocess.run raises
\* when there is no kitty executable to run ("raises")
DisplayOutcomes == {"skipped", "shown", "raises"}

display_image(self, outcome) ==
    IF outcome = "shown" THEN [self EXCEPT !.image = self.url] ELSE self

\* update_artwork, lines 223-227
update_artwork(self, url, outcome) ==
    display_image([self EXCEPT !.url = url], outcome)

\* handle_track_select and play_selected_track, lines 190-201, on the oldest
\* pending message
HandleTrackSelect(opens, outcome) ==
    /\ running
    /\ messages # <<>>
    /\ Head(messages).kind \in {"TrackWidget", "ListItem"}
    /\ messages' = Tail(messages)
    /\ IF Head(messages).kind = "TrackWidget"
       THEN /\ selected_track' = Head(messages).track
            /\ player' = AudioPlayer_play(player, Head(messages).track, opens)
            /\ artwork' = update_artwork(artwork, Head(messages).track.artwork_url,
                                         outcome)
            /\ running' = (outcome # "raises")
       ELSE UNCHANGED <<selected_track, player, artwork, running>>
    /\ UNCHANGED <<remote, cache, requests, workers, current_tracks, list_view,
                   notifications, call>>

\* action_play_pause, lines 230-232
ActionPlayPause ==
    /\ running
    /\ player' = AudioPlayer_toggle_pause(player)
    /\ UNCHANGED <<remote, cache, requests, workers, current_tracks, list_view,
                   selected_track, artwork, notifications, messages, running,
                   call>>

\* AudioPlayer.stop, called on the controller (SCTP binds no event to it)
PlayerStop ==
    /\ running
    /\ player' = AudioPlayer_stop(player)
    /\ UNCHANGED <<remote, cache, requests, workers, current_tracks, list_view,
                   selected_track, artwork, notifications, messages, running,
                   call>>

(***************************************************************************)
(* SCTP.search_tracks, lines 204-213, and update_track_list, lines         *)
(* 215-221: the steps of worker w's thread.                                *)
(***************************************************************************)
WorkerFrame ==
    UNCHANGED <<remote, selected_track, artwork, player, messages, call>>

\* line 208: self.notify(...)
WorkerNotify(w) ==
    /\ running
    /\ workers[w].pc = "notify"
    /\ notifications' = notifications \cup {<<"Searching for", workers[w].query>>}
    /\ workers' = [workers EXCEPT ![w].pc = "search"]
    /\ UNCHANGED <<cache, requests, current_tracks, list_view>>
    /\ UNCHANGED running
    /\ WorkerFrame

\* line 210, the call: the cache is looked up; a hit returns the cached
\* list, a miss enters search and sends the request (line 59)
WorkerLookup(w) ==
    /\ running
    /\ workers[w].pc = "search"
    /\ IF CacheHas(cache, workers[w].query)
       THEN /\ workers' = [workers EXCEPT
                               ![w].tracks = CacheGet(cache, workers[w].query),
                               ![w].pc = "check"]
            /\ cache' = CacheTouch(cache, workers[w].query)
            /\ UNCHANGED requests
       ELSE /\ workers' = [workers EXCEPT ![w].pc = "request"]
            /\ requests' = [requests EXCEPT ![workers[w].query] = @ + 1]
            /\ UNCHANGED cache
    /\ UNCHANGED <<current_tracks, list_view, notifications>>
    /\ UNCHANGED running
    /\ WorkerFrame

\* lines 59-84: the request comes back with r; search returns and its
\* result is cached.  An exception that left search would leave the worker
\* too, and a worker that fails ends the app.
WorkerResponse(w, r) ==
    /\ running
    /\ workers[w].pc = "request"
    /\ r \in Outcomes(remote, workers[w].query)
    /\ IF SearchBody(r).raised
       THEN /\ workers' = [workers EXCEPT ![w].pc = "done"]
            /\ running' = FALSE
            /\ UNCHANGED cache
       ELSE /\ workers' = [workers EXCEPT ![w].tracks = SearchBody(r).tracks,
                                          ![w].pc = "check"]
            /\ cache' = CacheStore(cache, workers[w].query, SearchBody(r).tracks)
            /\ UNCHANGED running
    /\ UNCHANGED <<requests, current_tracks, list_view, notifications>>
    /\ WorkerFrame

\* line 211: if not worker.is_cancelled
WorkerCheck(w) ==
    /\ running
    /\ workers[w].pc = "check"
    /\ workers' = [workers EXCEPT
                       ![w].pc = IF workers[w].cancelled THEN "done" ELSE "assign"]
    /\ UNCHANGED <<cache, requests, current_tracks, list_view, notifications>>
    /\ UNCHANGED running
    /\ WorkerFrame

\* a worker that, with the new result, stops the player and drops the
\* selection when the loaded track is not part of it
WorkerAssign_ResetsPlayback(w) ==
    /\ running
    /\ workers[w].pc = "assign"
    /\ current_tracks' = workers[w].tracks
    /\ workers' = [workers EXCEPT ![w].pc = "clear"]
    /\ IF \E k \in 1..Len(workers[w].tracks) :
              workers[w].tracks[k] = player.current_track
       THEN UNCHANGED <<player, selected_track>>
       ELSE /\ player' = AudioPlayer_stop(player)
            /\ selected_track' = NoTrack
    /\ UNCHANGED <<cache, requests, list_view, notifications, running>>
    /\ UNCHANGED <<remote, artwork, messages, call>>

\* line 212: self.current_tracks = tracks
WorkerAssign(w) ==
    /\ running
    /\ workers[w].pc = "assign"
    /\ current_tracks' = workers[w].tracks
    /\ workers' = [workers EXCEPT ![w].pc = "clear"]
    /\ UNCHANGED <<cache, requests, list_view, notifications>>
    /\ UNCHANGED running
    /\ WorkerFrame

\* line 218: list_view.clear()
WorkerClear(w) ==
    /\ running
    /\ workers[w].pc = "clear"
    /\ list_view' = <<>>
    /\ workers' = [workers EXCEPT
                       ![w].pc = IF workers[w].tracks = <<>> THEN "done" ELSE "append",
                       ![w].i = 1]
    /\ UNCHANGED <<cache, requests, current_tracks, notifications>>
    /\ UNCHANGED running
    /\ WorkerFrame

\* lines 220-221: list_view.append(TrackWidget(track)), once per track
WorkerAppend(w) ==
    /\ running
    /\ workers[w].pc = "append"
    /\ list_view' = Append(list_view, workers[w].tracks[workers[w].i])
    /\ workers' = [workers EXCEPT
                       ![w].pc = IF workers[w].i = Len(workers[w].tracks)
                                 THEN "done" ELSE "append",
                       ![w].i = @ + 1]
    /\ UNCHANGED <<cache, requests, current_tracks, notifications>>
    /\ UNCHANGED running
    /\ WorkerFrame

(***************************************************************************)
(* The session.                                                            *)
(***************************************************************************)
Next ==
    \/ \E query \in Queries \cup {""} : UserSubmit(query)
    \/ HandleSearch
    \/ \E i \in 1..Len(list_view) : UserSelect(i)
    \/ UserSelectOther
    \/ \E opens \in BOOLEAN, outcome \in DisplayOutcomes :
           HandleTrackSelect(opens, outcome)
    \/ ActionPlayPause
    \/ PlayerStop
    \/ \E w \in 1..Len(workers) : WorkerNotify(w)
    \/ \E w \in 1..Len(workers) : WorkerLookup(w)
    \/ \E w \in 1..Len(workers) :
           \E r \in Outcomes(remote, workers[w].query) : WorkerResponse(w, r)
    \/ \E w \in 1..Len(workers) : WorkerCheck(w)
    \/ \E w \in 1..Len(workers) : WorkerAssign(w)
    \/ \E w \in 1..Len(workers) : WorkerClear(w)
    \/ \E w \in 1..Len(workers) : WorkerAppend(w)

Spec == Init /\ [][Next]_vars

(***************************************************************************)
(* The search handlers and the worker threads alone.                       *)
(***************************************************************************)
NextSearch ==
    \/ \E query \in Queries \cup {""} : UserSubmit(query)
    \/ HandleSearch
    \/ \E w \in 1..Len(workers) : WorkerNotify(w)
    \/ \E w \in 1..Len(workers) : WorkerLookup(w)
    \/ \E w \in 1..Len(workers) :
           \E r \in Outcomes(remote, workers[w].query) : WorkerResponse(w, r)
    \/ \E w \in 1..Len(workers) : WorkerCheck(w)
    \/ \E w \in 1..Len(workers) : WorkerAssign(w)
    \/ \E w \in 1..Len(workers) : WorkerClear(w)
    \/ \E w \in 1..Len(workers) : WorkerAppend(w)

SpecSearch == Init /\ [][NextSearch]_vars

(***************************************************************************)
(* The Catalog Client alone: SoundCloudScraper.search called by a single   *)
(* caller, one call after the other, against a remote service that serves  *)
(* any of the response documents.                                          *)
(***************************************************************************)
InitScraper ==
    /\ remote \in {[q \in Queries |-> r] : r \in Responses}
    /\ InitSession

\* search(query), lines 53-84 under lru_cache: one whole call
ClientSearch(query, r) ==
    /\ call.n < MaxCalls
    /\ IF CacheHas(cache, query)
       THEN /\ call' = [n |-> call.n + 1, query |-> query, hit |-> TRUE,
                        response |-> NetFail, raised |-> FALSE,
                        result |-> CacheGet(cache, query),
                        uses |-> Append(call.uses, query)]
            /\ cache' = CacheTouch(cache, query)
            /\ UNCHANGED requests
       ELSE /\ r \in Outcomes(remote, query)
            /\ call' = [n |-> call.n + 1, query |-> query, hit |-> FALSE,
                        response |-> r, raised |-> SearchBody(r).raised,
                        result |-> SearchBody(r).tracks,
                        uses |-> Append(call.uses, query)]
            /\ cache' = IF SearchBody(r).raised THEN cache
                        ELSE CacheStore(cache, query, SearchBody(r).tracks)
            /\ requests' = [requests EXCEPT ![query] = @ + 1]
    /\ UNCHANGED <<remote, workers, current_tracks, list_view, selected_track,
                   artwork, player, notifications, messages, running>>

NextScraper ==
    \E query \in Queries : \E r \in Outcomes(remote, query) : ClientSearch(query, r)

SpecScraper == InitScraper /\ [][NextScraper]_vars

(***************************************************************************)
(***************************************************************************)
(* search with its cache at the limit of lru_cache(maxsize=100): the       *)
(* queries "1", "2", ... have been searched one after the other, each a    *)
(* miss that brought the same one-track page, and have filled the cache    *)
(* to, or to one below, its limit.  The calls that follow are of the two   *)
(* queries used longest ago, the one used last and two not yet searched.   *)
(***************************************************************************)
CacheQuery(i) == ToString(i)

CacheQueries == {CacheQuery(i) : i \in 1..(CacheMaxSize + MaxCalls)}

CacheProbes ==
    {CacheQuery(1), CacheQuery(2), CacheQuery(CacheMaxSize)}
        \cup {CacheQuery(CacheMaxSize + i) : i \in 1..MaxCalls}

\* the state after search(CacheQuery(1)), ..., search(CacheQuery(fill))
Filled(fill) ==
    /\ remote = [q \in CacheQueries |-> HttpResponse(200, <<NodeA>>)]
    /\ cache = [i \in 1..fill |-> [key |-> CacheQuery(i), value |-> <<TrackA>>]]
    /\ requests = [q \in CacheQueries |->
                      IF \E i \in 1..fill : q = CacheQuery(i) THEN 1 ELSE 0]
    /\ call = [NoCall EXCEPT !.uses = [i \in 1..fill |-> CacheQuery(i)]]
    /\ workers = <<>>
    /\ current_tracks = <<>>
    /\ list_view = <<>>
    /\ selected_track = NoTrack
    /\ artwork = [url |-> "", image |-> None]
    /\ player = [instance |-> <<NewMediaPlayer>>, player |-> 1,
                 current_track |-> NoTrack]
    /\ notifications = {}
    /\ messages = <<>>
    /\ running = TRUE

InitCache == \E fill \in (CacheMaxSize - 1)..CacheMaxSize : Filled(fill)

NextCache ==
    \E query \in CacheProbes : \E r \in Outcomes(remote, query) :
        ClientSearch(query, r)

SpecCache == InitCache /\ [][NextCache]_vars

(* The selection and playback handlers alone, from the state in which the  *)
(* one search made so far has been displayed and no search is running.     *)
(***************************************************************************)
DoneWorker(query, tracks) ==
    [query |-> query, pc |-> "done", cancelled |-> FALSE, tracks |-> tracks,
     i |-> Len(tracks) + 1]

\* the state of the session after handle_search(query) and all the steps of
\* its worker, the request having brought the service's page
Displayed(query) ==
    /\ remote = Catalog
    /\ cache = <<[key |-> query, value |-> TracksOf(Catalog[query])]>>
    /\ requests = [q \in Queries |-> IF q = query THEN 1 ELSE 0]
    /\ workers = <<DoneWorker(query, TracksOf(Catalog[query]))>>
    /\ current_tracks = TracksOf(Catalog[query])
    /\ list_view = TracksOf(Catalog[query])
    /\ selected_track = NoTrack
    /\ artwork = [url |-> "", image |-> None]
    /\ player = [instance |-> <<NewMediaPlayer>>, player |-> 1,
                 current_track |-> NoTrack]
    /\ notifications = {<<"Searching for", query>>}
    /\ messages = <<>>
    /\ running = TRUE
    /\ call = NoCall

InitPlayback == \E query \in Queries : Displayed(query)

NextPlayback ==
    \/ \E i \in 1..Len(list_view) : UserSelect(i)
    \/ UserSelectOther
    \/ \E opens \in BOOLEAN, outcome \in DisplayOutcomes :
           HandleTrackSelect(opens, outcome)
    \/ ActionPlayPause
    \/ PlayerStop

SpecPlayback == InitPlayback /\ [][NextPlayback]_vars

(***************************************************************************)
(***************************************************************************)
(* The search handlers and the worker threads while a track is loaded:     *)
(* from the state in which the i-th track of the one search displayed has  *)
(* been selected and started, and perhaps paused since.                    *)
(***************************************************************************)
Listening(query, i, paused) ==
    LET track == TracksOf(Catalog[query])[i]
        fresh == [instance |-> <<NewMediaPlayer>>, player |-> 1,
                  current_track |-> NoTrack]
        started == AudioPlayer_play(fresh, track, TRUE)
    IN /\ remote = Catalog
       /\ cache = <<[key |-> query, value |-> TracksOf(Catalog[query])]>>
       /\ requests = [q \in Queries |-> IF q = query THEN 1 ELSE 0]
       /\ workers = <<DoneWorker(query, TracksOf(Catalog[query]))>>
       /\ current_tracks = TracksOf(Catalog[query])
       /\ list_view = TracksOf(Catalog[query])
       /\ selected_track = track
       /\ artwork = update_artwork([url |-> "", image |-> None],
                                   track.artwork_url, "skipped")
       /\ player = IF paused THEN AudioPlayer_toggle_pause(started) ELSE started
       /\ notifications = {<<"Searching for", query>>}
       /\ messages = <<>>
       /\ running = TRUE
       /\ call = NoCall

InitListening ==
    \E query \in Queries : \E i \in 1..Len(TracksOf(Catalog[query])) :
        \E paused \in BOOLEAN : Listening(query, i, paused)

SpecListening == InitListening /\ [][NextSearch]_vars

(* The claims.                                                             *)
(***************************************************************************)
\* worker w takes a step
Steps(w) == w \in 1..Len(workers) /\ workers'[w] # workers[w]

\* C1: once a newer search has been started (the older worker is cancelled),
\* no step of the older worker writes the current result set or the
\* displayed list.
C1_StaleResultNeverApplied ==
    [][\A w \in 1..Len(workers) :
          (workers[w].cancelled /\ Steps(w))
              => (current_tracks' = current_tracks /\ list_view' = list_view)]_vars

\* the workers that are inside SoundCloudScraper.search, waiting for the
\* network
InSearch == {w \in 1..Len(workers) : workers[w].pc = "request"}

\* C2: at most one search task is executing SoundCloudScraper.search at any
\* time.
C2_AtMostOneInFlight == Cardinality(InSearch) <= 1

\* C3: a step of a cancelled search task adds no entry to the query cache
\* and does not change the displayed list.
C3_CancelledSearchHasNoEffect ==
    [][\A w \in 1..Len(workers) :
          (workers[w].cancelled /\ Steps(w))
              => (CacheKeys(cache') = CacheKeys(cache) /\ list_view' = list_view)]_vars

\* C4: as long as no cache entry has been evicted, the calls of search(q)
\* made so far have caused at most one network request for q.
C4_OneRequestPerQuery ==
    Len(cache) < CacheMaxSize => \A q \in Queries : requests[q] <= 1

\* the tracks of the nodes that carry all the required fields, in document
\* order
RECURSIVE TracksOfValidNodes(_)
TracksOfValidNodes(body) ==
    IF body = <<>> THEN <<>>
    ELSE IF NodeRaises(Head(body))
         THEN TracksOfValidNodes(Tail(body))
         ELSE <<MakeTrack(Head(body))>> \o TracksOfValidNodes(Tail(body))

\* C5: a call of search that fetched a page returns the tracks of the page's
\* valid nodes, in document order, whatever the other nodes are.
C5_BadNodesAreSkipped ==
    (call.n > 0 /\ ~call.hit /\ call.response.kind = "http"
        /\ ~RaisesForStatus(call.response))
        => call.result = TracksOfValidNodes(call.response.body)

\* a request that failed, an error status, or a page without result nodes
FailedResponse(r) ==
    r.kind = "raise" \/ r.status < 200 \/ r.status > 299 \/ r.body = <<>>

\* C6: when the response of a worker's request is a failure, an error status
\* or a page without result nodes, search returns the empty sequence to the
\* worker and raises nothing: the worker goes on to its cancellation check
\* and the app keeps running.
C6_FailedSearchIsEmpty ==
    [][\A w \in 1..Len(workers) :
          \A r \in Outcomes(remote, workers[w].query) :
              (WorkerResponse(w, r) /\ FailedResponse(r))
                  => /\ workers'[w].tracks = <<>>
                     /\ workers'[w].pc = "check"
                     /\ running']_vars

\* a search whose request was made has brought nothing, it was not
\* cancelled and has emptied the list, and the session is running
C6_Witness ==
    /\ running
    /\ \E w \in 1..Len(workers) :
          /\ workers[w].pc = "done"
          /\ ~workers[w].cancelled
          /\ requests[workers[w].query] > 0
          /\ workers[w].tracks = <<>>
          /\ TracksOf(remote[workers[w].query]) # <<>>
    /\ current_tracks = <<>>

\* the media players of the engine that are putting out audio
Audible(p) == {h \in 1..Len(p.instance) : p.instance[h].state = "Playing"}

\* C7: in every state at most one media player is putting out audio, and a
\* load_and_play(Y) whose stream opens, whatever was playing before, ends
\* with status Playing, currentTrack Y and the one audible media player
\* bound to Y's stream.
C7_PlayReplacesTrack ==
    /\ [](Cardinality(Audible(player)) <= 1)
    /\ [][\A outcome \in DisplayOutcomes :
             (HandleTrackSelect(TRUE, outcome) /\ Head(messages).kind = "TrackWidget")
                 => /\ Status(player') = "Playing"
                    /\ player'.current_track = Head(messages).track
                    /\ \A h \in Audible(player') :
                           player'.instance[h].media = Head(messages).track.stream_url]_vars

\* track A was played and its artwork shown, then track B was played: B is
\* the current track and is the one playing
C7_Witness ==
    /\ artwork.image = TrackA.artwork_url
    /\ player.current_track = TrackB
    /\ Status(player) = "Playing"
    /\ player.instance[player.player].media = TrackB.stream_url

\* C8: a load_and_play whose stream cannot be opened ends in status Stopped
\* with a PlaybackError naming the track reported, and the app running.
C8_PlaybackErrorIsReported ==
    [][\A outcome \in {"skipped", "shown"} :
          (HandleTrackSelect(FALSE, outcome) /\ Head(messages).kind = "TrackWidget")
              => /\ Status(player') = "Stopped"
                 /\ <<"PlaybackError", Head(messages).track.title>> \in notifications'
                 /\ running']_vars

\* C9: toggle_pause() in status Idle or Stopped changes nothing of the
\* player (status, engine state, currentTrack) and the app keeps running.
C9_TogglePauseIsNoOp ==
    [][(ActionPlayPause /\ Status(player) \in {"Idle", "Stopped"})
          => (player' = player /\ running')]_vars

\* a track has been loaded and stopped: play/pause is pressed in status
\* Stopped with a track present
C9_Witness ==
    /\ running
    /\ Status(player) = "Stopped"
    /\ player.current_track # NoTrack
    /\ player.instance[player.player].media # NoMedia

\* the track of a Selected message is in the displayed result set
InDisplayedSet(m) ==
    /\ m.kind = "TrackWidget"
    /\ \/ \E i \in 1..Len(current_tracks) : current_tracks[i] = m.track
       \/ \E i \in 1..Len(list_view) : list_view[i] = m.track

\* C10: handling a selection whose track is not in the displayed result set
\* leaves the player as it was.
C10_StaleSelectionIsIgnored ==
    [][\A opens \in BOOLEAN, outcome \in DisplayOutcomes :
          (HandleTrackSelect(opens, outcome) /\ ~InDisplayedSet(Head(messages)))
              => player' = player]_vars

\* C11 as stated: whenever the playback status is not Idle, a current track
\* is present.
C11_NonIdleHasTrack ==
    Status(player) # "Idle" => player.current_track # NoTrack

\* C11: whenever the playback status is not Idle, a current track is
\* present, unless stop() came before the first play: then the status is
\* Stopped, the engine has no media and there is no current track.
C11_NonIdleHasTrackOrNeverPlayed ==
    Status(player) # "Idle" =>
        \/ player.current_track # NoTrack
        \/ /\ Status(player) = "Stopped"
           /\ player.instance[player.player].media = NoMedia

\* play, pause and stop have all acted on a track: it is stopped, still the
\* current one, and another selection is pending
C11_Witness ==
    /\ Status(player) = "Stopped"
    /\ player.current_track = TrackB
    /\ player.instance[player.player].media = TrackB.stream_url
    /\ messages # <<>>

\* the seconds of a clock string by the formula of the claim: the sum of
\* part[i] * 60^(n-1-i) over the n colon-separated parts
RECURSIVE ClockSeconds(_)
ClockSeconds(parts) ==
    IF parts = <<>> THEN 0
    ELSE 60 * ClockSeconds(SubSeq(parts, 1, Len(parts) - 1))
             + ToInt(parts[Len(parts)]).val

\* colon-separated digit strings, two or three of them: M:SS or H:MM:SS
IsClockString(s) ==
    /\ s # Absent
    /\ Len(Split(s, ":")) \in {2, 3}
    /\ \A i \in 1..Len(Split(s, ":")) : ToInt(Split(s, ":")[i]).ok

\* C12: the duration of every track a search extracts from a node whose
\* duration text is a clock string M:SS or H:MM:SS is the sum of
\* part[i] * 60^(n-1-i): "3:45" gives 225 and "1:02:03" gives 3723.
C12_DurationIsClockSeconds ==
    (call.n > 0 /\ ~call.hit /\ call.result # <<>>) =>
        \A i \in 1..Len(call.result) :
            IsClockString(call.response.body[i].duration) =>
                call.result[i].duration
                    = ClockSeconds(Split(call.response.body[i].duration, ":"))

\* the position of the last use of key k in the history h of the calls
LastUse(h, k) ==
    CHOOSE i \in 1..Len(h) : h[i] = k /\ \A j \in (i + 1)..Len(h) : h[j] # k

\* the key of keys whose last use is the oldest
LeastRecentlyUsed(h, keys) ==
    CHOOSE k \in keys : \A j \in keys : LastUse(h, k) <= LastUse(h, j)

\* C13: the cache never holds more than 100 entries; a miss on a full cache
\* drops the entry whose last use (its insertion or its last hit) is the
\* oldest and adds the new one; a miss on a cache that is not full only
\* adds; a hit leaves the cached queries as they are and counts as a use.
C13_CacheIsBoundedLRU ==
    /\ [](Len(cache) <= CacheMaxSize)
    /\ [][call'.n = call.n + 1 =>
            CacheKeys(cache') =
                IF call'.hit THEN CacheKeys(cache)
                ELSE IF Len(cache) = CacheMaxSize
                     THEN (CacheKeys(cache)
                              \ {LeastRecentlyUsed(call.uses, CacheKeys(cache))})
                              \cup {call'.query}
                     ELSE CacheKeys(cache) \cup {call'.query}]_vars

\* the cache is full, the oldest query "1" has been hit and then a query
\* not searched before has missed: "2" has been dropped and "1" kept
C13_Witness ==
    /\ Len(cache) = CacheMaxSize
    /\ call.n = 2
    /\ ~call.hit
    /\ call.query = CacheQuery(CacheMaxSize + 1)
    /\ call.uses[Len(call.uses) - 1] = CacheQuery(1)
    /\ CacheHas(cache, CacheQuery(1))
    /\ ~CacheHas(cache, CacheQuery(2))
    /\ CacheHas(cache, CacheQuery(CacheMaxSize))

\* C14: the tracks of every result set search returns have pairwise distinct
\* ids, also when two result nodes of the page bear the same link
\* identifier.
C14_TrackIdsAreDistinct ==
    call.n > 0 =>
        \A i, j \in 1..Len(call.result) :
            call.result[i].id = call.result[j].id => i = j

\* the oldest pending message is the submission of the empty text
EmptySubmitted ==
    /\ messages # <<>>
    /\ Head(messages).kind = "Submitted"
    /\ Head(messages).value = ""

C16_ArtworkFailureIsHarmless ==
    [][(HandleTrackSelect(TRUE, "raises") /\ Head(messages).kind = "TrackWidget")
          => /\ player'.current_track = Head(messages).track
             /\ Status(player') = "Playing"
             /\ current_tracks' = current_tracks
             /\ list_view' = list_view
             /\ running']_vars

\* every search started has run to its end and no submission is pending
Quiescent ==
    /\ workers # <<>>
    /\ \A w \in 1..Len(workers) : workers[w].pc = "done"
    /\ messages = <<>>

\* C17: once the search started last and all the searches before it have run
\* to their end, the displayed result set is the result of the search
\* started last, whatever searches were outstanding when it started.  (The
\* state then repeats for ever when no search is started any more, so a
\* state that breaks this breaks "eventually equals and stays equal".)
C17_LastSearchIsDisplayed ==
    Quiescent =>
        /\ current_tracks = workers[Len(workers)].tracks
        /\ list_view = workers[Len(workers)].tracks

\* C18: toggle_pause() in status Playing ends in Paused and in status Paused
\* ends in Playing; the current track stays, and a second toggle_pause()
\* brings the player back to the state before the first.
C18_TogglePauseFlips ==
    [][(ActionPlayPause /\ Status(player) \in {"Playing", "Paused"}) =>
          /\ Status(player') = IF Status(player) = "Playing" THEN "Paused"
                               ELSE "Playing"
          /\ player'.current_track = player.current_track
          /\ AudioPlayer_toggle_pause(player') = player]_vars

\* the track "Song B" has been started and paused: play/pause is pressed
\* next in status Paused
C18_Witness ==
    /\ running
    /\ Status(player) = "Paused"
    /\ player.current_track = TrackB
    /\ selected_track = TrackB

\* the workers that have assigned current_tracks (line 212) and have not yet
\* finished update_track_list (line 213)
Applying == {w \in 1..Len(workers) : workers[w].pc \in {"clear", "append"}}

\* C19: whenever no worker is part-way through applying its result, the list
\* view holds the tracks of current_tracks in their order, and they are the
\* result of one single search (or nothing, before the first result).
C19_ListViewIsOneResult ==
    Applying = {} =>
        /\ list_view = current_tracks
        /\ \/ list_view = <<>>
           \/ \E w \in 1..Len(workers) : list_view = workers[w].tracks

\* C20: the handling of a submitted search and every step of a search
\* worker, the application of its result included, leave the player (its
\* current track, the engine's media and state) and selected_track as they
\* are.
C20_SearchLeavesPlayback ==
    [][(HandleSearch \/ \E w \in 1..Len(workers) : Steps(w)) =>
          /\ player' = player
          /\ selected_track' = selected_track]_vars

\* "Song A" is loaded and playing while the list shows the result of a
\* later search that does not hold it
C20_Witness ==
    /\ Len(workers) = 2
    /\ workers[2].pc = "done"
    /\ current_tracks = <<TrackC>>
    /\ list_view = <<TrackC>>
    /\ player.current_track = TrackA
    /\ Status(player) = "Playing"
    /\ selected_track = TrackA

=============================================================================
